---------------------------- MODULE Spec2Model ----------------------------
(***************************************************************************)
(* A model of the system_monitor kernel module                             *)
(* (src/kernel/system_monitor.c): the sampling kthread, the history ring   *)
(* buffer under its spinlock, the unsynchronised process table, the        *)
(* /proc read path, the control write path and module load / unload.      *)
(***************************************************************************)
EXTENDS Integers, Sequences, FiniteSets, TLC

(***************************************************************************)
(* Program constants.                                                      *)
(***************************************************************************)
HISTORY_SIZE == 60

MAX_PROCESSES == 50

\* sizeof(cmd) in control_write
CMD_SIZE == 32

ENOMEM == 12

EFAULT == 14

(***************************************************************************)
(* Bounds of the model (not program constants).                            *)
(***************************************************************************)
\* last clock value of the short runs (one unit = one 1000 ms interval)
MaxJiffies == 3

\* the long runs go this many intervals past one full turn of the ring
ExtraTicks == 2

\* control writes per run
MaxCtl == 2

\* changes of the environment (available memory, process list) per run
MaxEnv == 1

\* longest process list the environment offers
MaxTasks == 3

\* the long process lists go up to this many tasks past the table's capacity
OverTasks == 2

RingJiffies == HISTORY_SIZE + ExtraTicks

MemValues == {1000, 2000}

Generations == {1, 2}

Readers == {"r1"}

NUL == "\\0"

Min(a, b) == IF a < b THEN a ELSE b

VARIABLES
    \* ---- static storage of the module
    cpu_usage,        \* stats_history.cpu_usage[HISTORY_SIZE]
    mem_usage,        \* stats_history.mem_usage[HISTORY_SIZE]
    head,             \* stats_history.head
    lock,             \* stats_history.lock: "free", "monitor" or a reader
    top_processes,    \* top_processes[MAX_PROCESSES]
    monitoring,       \* static int monitoring
    proc_entry,       \* TRUE: /proc/system_monitor is registered
    control_entry,    \* TRUE: /proc/system_monitor_control is registered
    timer_armed,      \* stats_timer is pending
    monitor_thread,   \* "NULL", "task" or "ERR"
    \* ---- module life cycle
    phase,            \* "unloaded", "live", "failed", "exiting", "removed"
    init_ret,         \* what system_monitor_init returned (read once loaded)
    should_stop,      \* kthread_should_stop()
    \* ---- the kthread running monitor_function
    mpc,              \* its program counter
    mi,               \* collect_process_stats: i
    en,               \* collect_process_stats: the enumeration being walked
    \* ---- readers of /proc/system_monitor
    rpc,              \* program counter of each reader
    ri,               \* loop index i of show_history / show_top_processes
    out,              \* the seq_file of each reader
    \* ---- the environment
    jiffies,          \* the clock, in intervals
    mem_available,    \* what si_mem_available() returns now
    tasks,            \* what for_each_process enumerates now
    env_changes,      \* environment changes so far
    \* ---- history variables (observers, never read by the program)
    appended,         \* every pair appended to the ring, oldest first
    tick,             \* the flag the current tick read and the state it started in
    after_stop,       \* refreshes and appends begun after the stop request
    last_write,       \* the last control write: input and result
    ctl_calls         \* control writes so far

ring_vars  == <<cpu_usage, mem_usage, head, lock>>
mod_vars   == <<proc_entry, control_entry, timer_armed, monitor_thread, phase, init_ret, should_stop>>
mon_vars   == <<mpc, mi, en>>
rd_vars    == <<rpc, ri, out>>
env_vars   == <<jiffies, mem_available, tasks, env_changes>>
ctl_vars   == <<last_write, ctl_calls>>
hist_vars  == <<appended, tick, after_stop>>
vars == <<ring_vars, top_processes, monitoring, mod_vars, mon_vars, rd_vars,
          env_vars, ctl_vars, hist_vars>>

(***************************************************************************)
(* Data.                                                                   *)
(***************************************************************************)
Slots == 0 .. (HISTORY_SIZE - 1)

ProcSlots == 0 .. (MAX_PROCESSES - 1)

\* a zeroed struct process_stats (static storage)
ZeroStats == [pid |-> 0, cpu_time |-> 0, vm_size |-> 0, comm |-> ""]

CommNames == <<"init", "kthreadd", "sshd", "bash", "cron", "udevd">>

\* the i-th task of generation g of the process list; kernel threads
\* (even i) have no mm.  for_each_process never yields pid 0.
MkTask(g, i) ==
    [pid |-> 10 * g + i, utime |-> g, stime |-> i,
     has_mm |-> (i % 2 = 1), total_vm |-> i,
     comm |-> CommNames[((i - 1) % Len(CommNames)) + 1]]

TaskList(g, n) == [i \in 1 .. n |-> MkTask(g, i)]

\* the struct process_stats collect_process_stats fills from a task
\* (PAGE_SHIFT is 12)
StatsOf(task) ==
    [pid |-> task.pid,
     cpu_time |-> task.utime + task.stime,
     vm_size |-> IF task.has_mm THEN task.total_vm * 4096 ELSE 0,
     comm |-> task.comm]

\* the break taken one turn late
CollectMore_LateBreak(i, enum) == i < Len(enum) /\ ~(i > MAX_PROCESSES)

\* the loop condition of collect_process_stats: a next task, and i < MAX_PROCESSES
CollectMore(i, enum) == i < Len(enum) /\ ~(i >= MAX_PROCESSES)

\* the test of the flag reversed
FlagEnabled_Inverted(m) == m = 0

\* the flag is not looked at
FlagEnabled_Always(m) == TRUE

\* if (monitoring == 1)
FlagEnabled(m) == m = 1

\* the stop request is not looked at
LoopExits_Never(stop) == FALSE

\* !kthread_should_stop() failing: the loop ends
LoopExits(stop) == stop

\* a lock that excludes nobody
CanLock_NoExclusion(l) == TRUE

\* a lock the sampling loop takes whatever a reader holds
CanLock_IgnoresReaders(l) == l # "monitor"

\* spin_lock can take the lock
CanLock(l) == l = "free"

\* head wraps one slot early
\* the head advanced without the wrap
NextHead_NoWrap(h) == h + 1

NextHead_EarlyWrap(h) == (h + 1) % (HISTORY_SIZE - 1)

\* stats_history.head = (stats_history.head + 1) % HISTORY_SIZE
NextHead(h) == (h + 1) % HISTORY_SIZE

\* the read starts at head, not at head - 1
HistIdx_OffByOne(h, i) == (h - i + HISTORY_SIZE) % HISTORY_SIZE

\* int idx = (stats_history.head - i - 1 + HISTORY_SIZE) % HISTORY_SIZE
HistIdx(h, i) == (h - i - 1 + HISTORY_SIZE) % HISTORY_SIZE

EmptyOut == [sections |-> <<>>, hist |-> <<>>, top |-> <<>>]

NoWrite == [buffer |-> <<>>, fault |-> FALSE, ret |-> 0, before |-> 1, after |-> 1]

TickStart == [flag |-> monitoring, head |-> head, cpu |-> cpu_usage,
              mem |-> mem_usage, top |-> top_processes, n |-> Len(appended)]

(***************************************************************************)
(* The state of the module's static storage before it is loaded.           *)
(***************************************************************************)
InitWith(mems, lists) ==
    /\ cpu_usage = [s \in Slots |-> 0]
    /\ mem_usage = [s \in Slots |-> 0]
    /\ head = 0
    /\ lock = "free"
    /\ top_processes = [s \in ProcSlots |-> ZeroStats]
    /\ monitoring = 1
    /\ proc_entry = FALSE
    /\ control_entry = FALSE
    /\ timer_armed = FALSE
    /\ monitor_thread = "NULL"
    /\ phase = "unloaded"
    /\ init_ret = 0
    /\ should_stop = FALSE
    /\ mpc = "none"
    /\ mi = 0
    /\ en = <<>>
    /\ rpc = [r \in Readers |-> "idle"]
    /\ ri = [r \in Readers |-> 0]
    /\ out = [r \in Readers |-> EmptyOut]
    /\ jiffies = 1
    /\ mem_available \in mems
    /\ tasks \in lists
    /\ env_changes = 0
    /\ appended = <<>>
    /\ tick = [flag |-> 1, head |-> 0, cpu |-> [s \in Slots |-> 0],
               mem |-> [s \in Slots |-> 0],
               top |-> [s \in ProcSlots |-> ZeroStats], n |-> 0]
    /\ after_stop = [refresh |-> 0, append |-> 0]
    /\ last_write = NoWrite
    /\ ctl_calls = 0

\* the environment the module is loaded in: any memory reading, any process list
Init == InitWith(MemValues, {TaskList(1, n) : n \in 1 .. MaxTasks})

\* the long runs start from one process list
InitRing == InitWith(MemValues, {TaskList(1, 1)})

\* more processes than the table has slots
InitCrowded ==
    InitWith({1000}, {TaskList(1, MAX_PROCESSES + n) : n \in 1 .. OverTasks})

\* one memory reading, any short process list
InitLists == InitWith({1000}, {TaskList(1, n) : n \in 1 .. MaxTasks})

\* a steady environment: one memory reading, one process list
InitSteady == InitWith({1000}, {TaskList(1, 1)})

(***************************************************************************)
(* system_monitor_init.  okp, okc: proc_create succeeded for the stats and *)
(* the control entry; okt: kthread_run succeeded.                          *)
(***************************************************************************)
system_monitor_init(okp, okc, okt) ==
    /\ phase = "unloaded"
    /\ lock' = "free"
    /\ head' = 0
    /\ proc_entry' = okp
    /\ control_entry' = okc
    /\ IF ~okp \/ ~okc
       THEN /\ init_ret' = -ENOMEM
            /\ phase' = "failed"
            /\ UNCHANGED <<timer_armed, monitor_thread, mpc>>
       ELSE /\ timer_armed' = TRUE
            /\ IF okt
               THEN /\ monitor_thread' = "task"
                    /\ mpc' = "loop"
                    /\ init_ret' = 0
                    /\ phase' = "live"
               ELSE /\ monitor_thread' = "ERR"
                    /\ mpc' = "none"
                    /\ init_ret' = -ENOMEM
                    /\ phase' = "failed"
    /\ UNCHANGED <<cpu_usage, mem_usage, top_processes, monitoring, should_stop,
                   mi, en, rd_vars, env_vars, ctl_vars, hist_vars>>

\* timer_callback: re-arms the timer and does nothing else
timer_callback ==
    /\ timer_armed
    /\ phase = "live"
    /\ timer_armed' = TRUE
    /\ UNCHANGED <<ring_vars, top_processes, monitoring, proc_entry, control_entry,
                   monitor_thread, phase, init_ret, should_stop, mon_vars, rd_vars,
                   env_vars, ctl_vars, hist_vars>>

(***************************************************************************)
(* monitor_function, one action per step of the loop.                      *)
(***************************************************************************)
\* while (!kthread_should_stop())
m_loop ==
    /\ mpc = "loop"
    /\ mpc' = IF LoopExits(should_stop) THEN "exited" ELSE "check"
    /\ UNCHANGED <<ring_vars, top_processes, monitoring, mod_vars, mi, en, rd_vars,
                   env_vars, ctl_vars, hist_vars>>

\* the append entered without the refresh
m_check_AppendsFirst ==
    /\ mpc = "check"
    /\ tick' = TickStart
    /\ IF FlagEnabled(monitoring)
       THEN /\ mpc' = "lock"
            /\ mi' = 0
            /\ en' = tasks
            /\ UNCHANGED after_stop
       ELSE /\ mpc' = "sleep"
            /\ UNCHANGED <<mi, en, after_stop>>
    /\ UNCHANGED <<ring_vars, top_processes, monitoring, mod_vars, rd_vars,
                   env_vars, ctl_vars, appended>>

\* if (monitoring == 1) { collect_process_stats(); ... : the flag is read,
\* and collect_process_stats starts its walk (i = 0, rcu_read_lock)
m_check ==
    /\ mpc = "check"
    /\ tick' = TickStart
    /\ IF FlagEnabled(monitoring)
       THEN /\ mpc' = "collect"
            /\ mi' = 0
            /\ en' = tasks
            /\ after_stop' = IF should_stop
                             THEN [after_stop EXCEPT !.refresh = @ + 1]
                             ELSE after_stop
       ELSE /\ mpc' = "sleep"
            /\ UNCHANGED <<mi, en, after_stop>>
    /\ UNCHANGED <<ring_vars, top_processes, monitoring, mod_vars, rd_vars,
                   env_vars, ctl_vars, appended>>

\* a walk that passes over the slot of a task without an address space
collect_process_stats_SkipsSlot ==
    /\ mpc = "collect"
    /\ IF CollectMore(mi, en)
       THEN /\ top_processes' = IF en[mi + 1].has_mm
                                THEN [top_processes EXCEPT ![mi] = StatsOf(en[mi + 1])]
                                ELSE top_processes
            /\ mi' = mi + 1
            /\ UNCHANGED mpc
       ELSE /\ mpc' = "lock"
            /\ UNCHANGED <<top_processes, mi>>
    /\ UNCHANGED <<ring_vars, monitoring, mod_vars, en, rd_vars, env_vars,
                   ctl_vars, hist_vars>>

\* collect_process_stats: one turn of for_each_process, or the end of the walk
collect_process_stats ==
    /\ mpc = "collect"
    /\ IF CollectMore(mi, en)
       THEN /\ top_processes' = [top_processes EXCEPT ![mi] = StatsOf(en[mi + 1])]
            /\ mi' = mi + 1
            /\ UNCHANGED mpc
       ELSE /\ mpc' = "lock"
            /\ UNCHANGED <<top_processes, mi>>
    /\ UNCHANGED <<ring_vars, monitoring, mod_vars, en, rd_vars, env_vars,
                   ctl_vars, hist_vars>>

\* spin_lock(&stats_history.lock)
m_lock ==
    /\ mpc = "lock"
    /\ CanLock(lock)
    /\ lock' = "monitor"
    /\ mpc' = "w_cpu"
    /\ UNCHANGED <<cpu_usage, mem_usage, head, top_processes, monitoring, mod_vars,
                   mi, en, rd_vars, env_vars, ctl_vars, hist_vars>>

\* stats_history.cpu_usage[stats_history.head] = get_jiffies_64()
m_w_cpu ==
    /\ mpc = "w_cpu"
    /\ cpu_usage' = [cpu_usage EXCEPT ![head] = jiffies]
    /\ mpc' = "w_mem"
    /\ UNCHANGED <<mem_usage, head, lock, top_processes, monitoring, mod_vars,
                   mi, en, rd_vars, env_vars, ctl_vars, hist_vars>>

\* stats_history.mem_usage[stats_history.head] = si_mem_available()
m_w_mem ==
    /\ mpc = "w_mem"
    /\ mem_usage' = [mem_usage EXCEPT ![head] = mem_available]
    /\ mpc' = "w_head"
    /\ UNCHANGED <<cpu_usage, head, lock, top_processes, monitoring, mod_vars,
                   mi, en, rd_vars, env_vars, ctl_vars, hist_vars>>

\* stats_history.head = (stats_history.head + 1) % HISTORY_SIZE
m_w_head ==
    /\ mpc = "w_head"
    /\ head' = NextHead(head)
    /\ mpc' = "unlock"
    /\ appended' = Append(appended, [cpu |-> cpu_usage[head], mem |-> mem_usage[head]])
    /\ after_stop' = IF should_stop
                     THEN [after_stop EXCEPT !.append = @ + 1]
                     ELSE after_stop
    /\ UNCHANGED <<cpu_usage, mem_usage, lock, top_processes, monitoring, mod_vars,
                   mi, en, rd_vars, env_vars, ctl_vars, tick>>

\* the append leaving without spin_unlock
m_unlock_NeverReleases ==
    /\ mpc = "unlock"
    /\ mpc' = "sleep"
    /\ UNCHANGED <<ring_vars, top_processes, monitoring, mod_vars,
                   mi, en, rd_vars, env_vars, ctl_vars, hist_vars>>

\* spin_unlock(&stats_history.lock)
m_unlock ==
    /\ mpc = "unlock"
    /\ lock' = "free"
    /\ mpc' = "sleep"
    /\ UNCHANGED <<cpu_usage, mem_usage, head, top_processes, monitoring, mod_vars,
                   mi, en, rd_vars, env_vars, ctl_vars, hist_vars>>

\* msleep(1000): uninterruptible, the clock is one interval later when it
\* returns.  limit caps the clock.
msleep(limit) ==
    /\ mpc = "sleep"
    /\ jiffies < limit
    /\ jiffies' = jiffies + 1
    /\ mpc' = "loop"
    /\ UNCHANGED <<ring_vars, top_processes, monitoring, mod_vars, mi, en, rd_vars,
                   mem_available, tasks, env_changes, ctl_vars, hist_vars>>

monitor_function(limit) ==
    \/ m_loop
    \/ m_check
    \/ collect_process_stats
    \/ m_lock
    \/ m_w_cpu
    \/ m_w_mem
    \/ m_w_head
    \/ m_unlock
    \/ msleep(limit)

(***************************************************************************)
(* system_stats_show for reader r: the seven sections, one action per      *)
(* section, and one per line of the two stored tables.                     *)
(***************************************************************************)
Emit(r, name) == [out EXCEPT ![r].sections = Append(@, name)]

\* system_stats_open: single_open, a fresh seq_file; the entry is read
\* while the module is loaded
system_stats_open(r) ==
    /\ rpc[r] = "idle"
    /\ proc_entry
    /\ phase \in {"live", "exiting"}
    /\ rpc' = [rpc EXCEPT ![r] = "cpu"]
    /\ out' = [out EXCEPT ![r] = EmptyOut]
    /\ ri' = [ri EXCEPT ![r] = 0]
    /\ UNCHANGED <<ring_vars, top_processes, monitoring, mod_vars, mon_vars,
                   env_vars, ctl_vars, hist_vars>>

\* a section read live from the kernel: nothing of the module is touched
LiveSection(r, at, name, then) ==
    /\ rpc[r] = at
    /\ rpc' = [rpc EXCEPT ![r] = then]
    /\ out' = Emit(r, name)
    /\ UNCHANGED <<ring_vars, top_processes, monitoring, mod_vars, mon_vars, ri,
                   env_vars, ctl_vars, hist_vars>>

get_cpu_stats(r) == LiveSection(r, "cpu", "cpu_stats", "mem")

get_memory_stats(r) == LiveSection(r, "mem", "memory_stats", "pcount")

get_process_count(r) == LiveSection(r, "pcount", "process_count", "io")

get_io_stats(r) == LiveSection(r, "io", "io_stats", "net")

get_network_stats(r) == LiveSection(r, "net", "network_stats", "hist_lock")

\* the loop running one turn past the ring
HistMore_OneMore(i) == i <= HISTORY_SIZE

\* the loop condition of show_history: i < HISTORY_SIZE
HistMore(i) == i < HISTORY_SIZE

\* show_history: spin_lock; seq_puts(m, "history:\n")
h_lock(r) ==
    /\ rpc[r] = "hist_lock"
    /\ CanLock(lock)
    /\ lock' = r
    /\ rpc' = [rpc EXCEPT ![r] = "hist_loop"]
    /\ ri' = [ri EXCEPT ![r] = 0]
    /\ out' = Emit(r, "history")
    /\ UNCHANGED <<cpu_usage, mem_usage, head, top_processes, monitoring, mod_vars,
                   mon_vars, env_vars, ctl_vars, hist_vars>>

\* show_history: one turn of the loop
h_line(r) ==
    /\ rpc[r] = "hist_loop"
    /\ HistMore(ri[r])
    /\ LET idx == HistIdx(head, ri[r])
       IN out' = [out EXCEPT ![r].hist =
                     Append(@, <<ri[r], cpu_usage[idx], mem_usage[idx]>>)]
    /\ ri' = [ri EXCEPT ![r] = @ + 1]
    /\ UNCHANGED <<ring_vars, top_processes, monitoring, mod_vars, mon_vars, rpc,
                   env_vars, ctl_vars, hist_vars>>

\* the lock kept past the end of show_history
h_unlock_KeepsLock(r) ==
    /\ rpc[r] = "hist_loop"
    /\ ~HistMore(ri[r])
    /\ rpc' = [rpc EXCEPT ![r] = "top_loop"]
    /\ ri' = [ri EXCEPT ![r] = 0]
    /\ out' = Emit(r, "top_processes")
    /\ UNCHANGED <<ring_vars, top_processes, monitoring, mod_vars,
                   mon_vars, env_vars, ctl_vars, hist_vars>>

\* show_history: the loop ends, spin_unlock; show_top_processes: seq_puts
h_unlock(r) ==
    /\ rpc[r] = "hist_loop"
    /\ ~HistMore(ri[r])
    /\ lock' = "free"
    /\ rpc' = [rpc EXCEPT ![r] = "top_loop"]
    /\ ri' = [ri EXCEPT ![r] = 0]
    /\ out' = Emit(r, "top_processes")
    /\ UNCHANGED <<cpu_usage, mem_usage, head, top_processes, monitoring, mod_vars,
                   mon_vars, env_vars, ctl_vars, hist_vars>>

show_history(r) == h_lock(r) \/ h_line(r) \/ h_unlock(r)

\* the loop of show_top_processes goes on: i < MAX_PROCESSES and no pid 0
TopMore(i, table) == i < MAX_PROCESSES /\ ~(table[i].pid = 0)

\* show_top_processes: one turn of the loop, or its end and return 0
show_top_processes(r) ==
    /\ rpc[r] = "top_loop"
    /\ IF TopMore(ri[r], top_processes)
       THEN /\ out' = [out EXCEPT ![r].top = Append(@, top_processes[ri[r]])]
            /\ ri' = [ri EXCEPT ![r] = @ + 1]
            /\ UNCHANGED rpc
       ELSE /\ rpc' = [rpc EXCEPT ![r] = "done"]
            /\ UNCHANGED <<out, ri>>
    /\ UNCHANGED <<ring_vars, top_processes, monitoring, mod_vars, mon_vars,
                   env_vars, ctl_vars, hist_vars>>

\* single_release: the seq_file is freed
single_release(r) ==
    /\ rpc[r] = "done"
    /\ rpc' = [rpc EXCEPT ![r] = "idle"]
    /\ out' = [out EXCEPT ![r] = EmptyOut]
    /\ ri' = [ri EXCEPT ![r] = 0]
    /\ UNCHANGED <<ring_vars, top_processes, monitoring, mod_vars, mon_vars,
                   env_vars, ctl_vars, hist_vars>>

\* every step of a read but its start
ReadStep(r) ==
    \/ get_cpu_stats(r)
    \/ get_memory_stats(r)
    \/ get_process_count(r)
    \/ get_io_stats(r)
    \/ get_network_stats(r)
    \/ show_history(r)
    \/ show_top_processes(r)
    \/ single_release(r)

system_stats_show(r) == system_stats_open(r) \/ ReadStep(r)

(***************************************************************************)
(* control_write.  A user buffer is a sequence of bytes; fault says that   *)
(* copy_from_user could not read it (a copy of no bytes cannot fault).     *)
(* The entry takes writes while the module is loaded: after a failed load  *)
(* the module's code is gone, whatever entries it left behind.             *)
(***************************************************************************)
Enable == <<"e", "n", "a", "b", "l", "e">>

Disable == <<"d", "i", "s", "a", "b", "l", "e">>

Filler(n) == [i \in 1 .. n |-> "x"]

CtlInputs ==
    { Enable, Disable,
      Enable \o <<"\n">>, Disable \o <<"d">>,
      <<"x", "y", "z">>, <<"E", "n", "a", "b", "l", "e">>,
      <<" ">> \o Enable, <<>>, <<"e", "n", "a", "b", "l">>,
      <<"e", "n", "a", NUL, "b", "l", "e">>,
      Enable \o Filler(34), Filler(40), Filler(26) \o Disable }

\* size_t len = min(count, sizeof(cmd) - 1)
CmdLen(count) == Min(count, CMD_SIZE - 1)

\* cmd after copy_from_user(cmd, buffer, len) and cmd[len] = '\0'
CmdOf(buffer) == SubSeq(buffer, 1, CmdLen(Len(buffer))) \o <<NUL>>

\* strncmp(a, b, n) == 0 for NUL-terminated a and b, from byte i on
RECURSIVE StrncmpEqFrom(_, _, _, _)
StrncmpEqFrom(a, b, n, i) ==
    IF i > n THEN TRUE
    ELSE IF a[i] # b[i] THEN FALSE
    ELSE IF a[i] = NUL THEN TRUE
    ELSE StrncmpEqFrom(a, b, n, i + 1)

StrncmpEq(a, b, n) == StrncmpEqFrom(a, b \o <<NUL>>, n, 1)

\* "enable" flips the flag
FlagOn_Toggle(old) == 1 - old

\* monitoring = 1
FlagOn(old) == 1

\* the commands matched as whole strings, not as prefixes
FlagAfter_WholeLine(cmd, old) ==
    IF cmd = Enable \o <<NUL>> THEN FlagOn(old)
    ELSE IF cmd = Disable \o <<NUL>> THEN 0
    ELSE old

\* the if / else if of control_write: the flag after the command cmd
FlagAfter(cmd, old) ==
    IF StrncmpEq(cmd, Enable, 6) THEN FlagOn(old)
    ELSE IF StrncmpEq(cmd, Disable, 7) THEN 0
    ELSE old

\* the copied length returned, not count
WriteReturn_Len(count) == CmdLen(count)

\* return count
WriteReturn(count) == count

control_write(buffer, fault) ==
    /\ control_entry
    /\ phase \in {"live", "exiting"}
    /\ ctl_calls < MaxCtl
    /\ fault => CmdLen(Len(buffer)) > 0
    /\ ctl_calls' = ctl_calls + 1
    /\ IF fault
       THEN /\ UNCHANGED monitoring
            /\ last_write' = [buffer |-> buffer, fault |-> TRUE, ret |-> -EFAULT,
                              before |-> monitoring, after |-> monitoring]
       ELSE /\ monitoring' = FlagAfter(CmdOf(buffer), monitoring)
            /\ last_write' = [buffer |-> buffer, fault |-> FALSE,
                              ret |-> WriteReturn(Len(buffer)),
                              before |-> monitoring, after |-> monitoring']
    /\ UNCHANGED <<ring_vars, top_processes, mod_vars, mon_vars, rd_vars,
                   env_vars, hist_vars>>

(***************************************************************************)
(* The environment: available memory and the process list change.          *)
(***************************************************************************)
EnvMem ==
    /\ env_changes < MaxEnv
    /\ \E v \in MemValues \ {mem_available} : mem_available' = v
    /\ env_changes' = env_changes + 1
    /\ UNCHANGED <<ring_vars, top_processes, monitoring, mod_vars, mon_vars,
                   rd_vars, jiffies, tasks, ctl_vars, hist_vars>>

EnvTasks ==
    /\ env_changes < MaxEnv
    /\ \E g \in Generations, n \in 1 .. MaxTasks :
          /\ TaskList(g, n) # tasks
          /\ tasks' = TaskList(g, n)
    /\ env_changes' = env_changes + 1
    /\ UNCHANGED <<ring_vars, top_processes, monitoring, mod_vars, mon_vars,
                   rd_vars, jiffies, mem_available, ctl_vars, hist_vars>>

(***************************************************************************)
(* system_monitor_exit: del_timer_sync and kthread_stop raise the stop     *)
(* request; kthread_stop returns when the thread has exited, and the proc  *)
(* entries are removed once no read is in flight.                          *)
(***************************************************************************)
exit_begin_ClearsFlag(limit) ==
    /\ phase = "live"
    /\ jiffies < limit
    /\ timer_armed' = FALSE
    /\ should_stop' = TRUE
    /\ phase' = "exiting"
    /\ monitoring' = 0
    /\ UNCHANGED <<ring_vars, top_processes, proc_entry, control_entry,
                   monitor_thread, init_ret, mon_vars, rd_vars, env_vars,
                   ctl_vars, hist_vars>>

exit_begin(limit) ==
    /\ phase = "live"
    /\ jiffies < limit
    /\ timer_armed' = FALSE
    /\ should_stop' = TRUE
    /\ phase' = "exiting"
    /\ UNCHANGED <<ring_vars, top_processes, monitoring, proc_entry, control_entry,
                   monitor_thread, init_ret, mon_vars, rd_vars, env_vars,
                   ctl_vars, hist_vars>>

exit_finish ==
    /\ phase = "exiting"
    /\ mpc = "exited"
    /\ \A r \in Readers : rpc[r] = "idle"
    /\ proc_entry' = FALSE
    /\ control_entry' = FALSE
    /\ phase' = "removed"
    /\ UNCHANGED <<ring_vars, top_processes, monitoring, timer_armed,
                   monitor_thread, init_ret, should_stop, mon_vars, rd_vars,
                   env_vars, ctl_vars, hist_vars>>

system_monitor_exit(limit) == exit_begin(limit) \/ exit_finish

(***************************************************************************)
(* Specifications.  Each takes the operations its properties are about;    *)
(* Spec is the whole module on a short clock.                              *)
(***************************************************************************)
Load == \E okp, okc, okt \in BOOLEAN : system_monitor_init(okp, okc, okt)

Read == \E r \in Readers : system_stats_show(r)

\* the commands the specifications about other operations write
PlainCommands == {Enable, Disable}

\* the control channel under every input: load, the sampling loop, control writes
NextCtl ==
    \/ Load
    \/ monitor_function(MaxJiffies)
    \/ \E b \in CtlInputs, f \in BOOLEAN : control_write(b, f)

\* the module from load to unload on the short clock, in a steady
\* environment: load, the timer, the sampling loop, reads, control writes
\* and unload
Next ==
    \/ Load
    \/ timer_callback
    \/ monitor_function(MaxJiffies)
    \/ Read
    \/ \E b \in PlainCommands : control_write(b, FALSE)
    \/ system_monitor_exit(MaxJiffies)

Spec == InitSteady /\ [][Next]_vars

\* the scheduler runs the kthread and a reader that has started, and the
\* spinlock is fair to the kthread (queued spinlocks serve waiters in order)
FairSpec ==
    /\ Spec
    /\ WF_vars(monitor_function(MaxJiffies))
    /\ SF_vars(m_lock)
    /\ WF_vars(\E r \in Readers : ReadStep(r))

\* reads and control writes against the sampling loop: load, the sampling
\* loop, reads, enable and disable
NextRead ==
    \/ Load
    \/ monitor_function(MaxJiffies)
    \/ Read
    \/ \E buffer \in PlainCommands : control_write(buffer, FALSE)

SpecRead == InitSteady /\ [][NextRead]_vars

\* the scheduler runs the kthread and a reading process; a spinning waiter,
\* the sampling loop or a reader, gets the lock: the other side takes it
\* again and again, but a waiter is not passed over for ever
FairReadSpec ==
    /\ SpecRead
    /\ WF_vars(monitor_function(MaxJiffies))
    /\ SF_vars(m_lock)
    /\ WF_vars(\E r \in Readers : ReadStep(r))
    /\ SF_vars(\E r \in Readers : h_lock(r))

\* the process table under a changing process list: load, the sampling
\* loop, the process list changing
NextTable ==
    \/ Load
    \/ monitor_function(MaxJiffies)
    \/ EnvTasks

SpecTable == Init /\ [][NextTable]_vars

SpecCtl == Init /\ [][NextCtl]_vars

\* the table under more processes than it has slots: load, the sampling
\* loop, reads
NextCrowded ==
    \/ Load
    \/ monitor_function(MaxJiffies)
    \/ Read

SpecCrowded == InitCrowded /\ [][NextCrowded]_vars

\* reads against a changing process table: load, the sampling loop, reads,
\* changes of the process list
NextTorn ==
    \/ Load
    \/ monitor_function(MaxJiffies)
    \/ Read
    \/ EnvTasks

SpecTorn == InitLists /\ [][NextTorn]_vars

\* the ring over more than one full turn: load, the sampling loop, reads
NextRing ==
    \/ Load
    \/ monitor_function(RingJiffies)
    \/ Read

SpecRing == InitRing /\ [][NextRing]_vars

(***************************************************************************)
(* Properties of the history ring buffer (under SpecRing).                 *)
(***************************************************************************)
\* the number of appends so far
K == Len(appended)

\* reader r holds the lock and has emitted all HISTORY_SIZE lines
FullSnapshot(r) == lock = r /\ Len(out[r].hist) = HISTORY_SIZE

\* the line show_history must emit at index i after the appends in log:
\* the i-th most recent append, or the zero pair of a slot never written
LineOf(log, i) ==
    IF i < Len(log)
    THEN <<i, log[Len(log) - i].cpu, log[Len(log) - i].mem>>
    ELSE <<i, 0, 0>>

\* the (cpu_marker, available_memory) pairs of the lines of a snapshot
PairsOf(lines) == {<<lines[j][2], lines[j][3]>> : j \in 1 .. Len(lines)}

PairOf(e) == <<e.cpu, e.mem>>

\* C1: while a reader holds the lock (no append is in progress), the line
\* it emitted at index i is the pair written by the i-th most recent
\* append, for every i below min(K, HISTORY_SIZE); index 0 is the newest.
C1_SnapshotOrder ==
    \A r \in Readers :
        lock = r =>
            \A j \in 1 .. Len(out[r].hist) :
                (j - 1 < Min(K, HISTORY_SIZE)) =>
                    out[r].hist[j] = <<j - 1, appended[K - (j - 1)].cpu,
                                       appended[K - (j - 1)].mem>>

\* C1 witness: a complete snapshot taken after the ring has filled
C1_Witness ==
    \E r \in Readers : FullSnapshot(r) /\ K >= HISTORY_SIZE
                       /\ out[r].hist[1][2] = appended[K].cpu

\* C2: after K > HISTORY_SIZE appends a complete snapshot holds exactly the
\* last HISTORY_SIZE appended pairs and none older; after HISTORY_SIZE + 1
\* appends the first is gone and appends 2 .. HISTORY_SIZE + 1 are all there.
C2_WrapAround ==
    \A r \in Readers :
        (FullSnapshot(r) /\ K > HISTORY_SIZE) =>
            /\ PairsOf(out[r].hist) =
                  {PairOf(appended[j]) : j \in (K - HISTORY_SIZE + 1) .. K}
            /\ \A j \in 1 .. (K - HISTORY_SIZE) :
                  PairOf(appended[j]) \notin PairsOf(out[r].hist)

\* C2 witness: a complete snapshot after exactly HISTORY_SIZE + 1 appends
C2_Witness ==
    \E r \in Readers : FullSnapshot(r) /\ K = HISTORY_SIZE + 1
                       /\ PairOf(appended[1]) \notin PairsOf(out[r].hist)

\* the numbers k of appends after which the ring's newest pair is line
MatchingK(line) ==
    IF line[2] = 0 /\ line[3] = 0 THEN {0}
    ELSE {k \in 1 .. K : PairOf(appended[k]) = <<line[2], line[3]>>}

\* C6: no history entry is partially visible: every emitted line carries a
\* pair written by one append (or the initial zero pair), and a complete
\* snapshot is the ring as it stood after some whole number of appends.
C6_NoPartialEntry ==
    \A r \in Readers :
        /\ PairsOf(out[r].hist) \subseteq
              {PairOf(appended[j]) : j \in 1 .. K} \cup {<<0, 0>>}
        /\ Len(out[r].hist) = HISTORY_SIZE =>
              \E k \in MatchingK(out[r].hist[1]) :
                  \A i \in 0 .. (HISTORY_SIZE - 1) :
                      out[r].hist[i + 1] = LineOf(SubSeq(appended, 1, k), i)

\* C6 witness: a complete snapshot is out, and a later append has already
\* moved the ring on
C6_Witness ==
    \E r \in Readers :
        /\ Len(out[r].hist) = HISTORY_SIZE
        /\ K >= 2
        /\ out[r].hist[1] = <<0, appended[K - 1].cpu, appended[K - 1].mem>>
        /\ mpc \in {"w_cpu", "w_mem", "w_head"} \/ K > 2

(***************************************************************************)
(* Properties of the process table (under SpecTable).                      *)
(***************************************************************************)
\* the lines show_top_processes emits from a table that no refresh touches
\* meanwhile: the slots before the first one TopMore stops at
RenderedLines(table) ==
    LET n == CHOOSE i \in 0 .. MAX_PROCESSES :
                 /\ ~TopMore(i, table)
                 /\ \A j \in 0 .. (i - 1) : TopMore(j, table)
    IN [i \in 1 .. n |-> table[i - 1]]

\* an enabled tick has finished its refresh and its append
TickDone == mpc = "sleep" /\ tick.flag = 1

\* C3: after a tick that enumerated k < MAX_PROCESSES processes, slots
\* k .. MAX_PROCESSES - 1 have pid 0 and the next report's top_processes
\* section is exactly the k enumerated processes, in enumeration order,
\* whatever the earlier ticks enumerated.
C3_TruncationMarker ==
    (TickDone /\ Len(en) < MAX_PROCESSES) =>
        /\ \A j \in Len(en) .. (MAX_PROCESSES - 1) : top_processes[j].pid = 0
        /\ RenderedLines(top_processes) = [i \in 1 .. Len(en) |-> StatsOf(en[i])]

(***************************************************************************)
(* Properties of load and unload (under Spec and FairSpec).                *)
(***************************************************************************)
\* C4: when system_monitor_init fails it returns an error and leaves
\* nothing acquired: no proc entry registered, no timer armed, no thread.
C4_InitUnwinds ==
    phase = "failed" =>
        /\ init_ret < 0
        /\ ~proc_entry
        /\ ~control_entry
        /\ ~timer_armed
        /\ mpc = "none"

\* C7: once the stop request is raised the sampling loop eventually exits,
\* whether the flag is enabled or not; it begins at most one more refresh
\* and performs at most one more append after the request; and it does not
\* hold the ring-buffer lock when it has exited.
C7_StopTerminates ==
    /\ should_stop ~> (mpc = "exited")
    /\ [](after_stop.refresh <= 1 /\ after_stop.append <= 1)
    /\ [](mpc = "exited" => lock # "monitor")

\* C7 witness: the loop has exited after one whole collection that followed
\* the stop request
C7_Witness ==
    /\ mpc = "exited"
    /\ should_stop
    /\ after_stop.append = 1
    /\ lock = "free"

(***************************************************************************)
(* Properties of the control channel and the flag (under SpecCtl).         *)
(***************************************************************************)
Written == ctl_calls > 0

\* C5: a tick that reads the flag as disabled leaves the ring's slots, head
\* and the process table as they were, and nothing changes them between
\* ticks while the flag is disabled; a tick that reads it as enabled
\* appends exactly one entry (head advances by 1 modulo HISTORY_SIZE).
C5_FlagGating ==
    /\ [](mpc = "sleep" =>
            IF tick.flag = 1
            THEN /\ head = (tick.head + 1) % HISTORY_SIZE
                 /\ K = tick.n + 1
            ELSE /\ cpu_usage = tick.cpu
                 /\ mem_usage = tick.mem
                 /\ head = tick.head
                 /\ top_processes = tick.top
                 /\ K = tick.n)
    /\ [][(monitoring # 1 /\ mpc \in {"loop", "check", "sleep"}) =>
            UNCHANGED <<cpu_usage, mem_usage, head, top_processes>>]_vars

\* C5 witness: "enable" was written after a tick was skipped, and the
\* next tick has appended one entry
C5_Witness ==
    /\ mpc = "sleep"
    /\ tick.flag = 1
    /\ K >= 2
    /\ appended[K].cpu - appended[K - 1].cpu >= 2
    /\ Written
    /\ last_write.buffer = Enable
    /\ last_write.before = 0

\* C8 as stated: a control write always returns the full input length
C8_AlwaysFullCount == Written => last_write.ret = Len(last_write.buffer)

\* C8 amended: a control write whose buffer copy_from_user can read returns
\* the full input length, recognized or not, truncated or not; one whose
\* buffer cannot be read returns -EFAULT and leaves the flag as it was.
C8_FullCountWhenCopied ==
    Written =>
        IF last_write.fault
        THEN last_write.ret = -EFAULT /\ last_write.after = last_write.before
        ELSE last_write.ret = Len(last_write.buffer)

\* C8 witness: an input longer than the 31 usable bytes was copied
C8_Witness ==
    /\ Written
    /\ ~last_write.fault
    /\ Len(last_write.buffer) > CMD_SIZE - 1
    /\ last_write.ret = Len(last_write.buffer)

\* the first 31 bytes of the input
Truncated(buffer) == SubSeq(buffer, 1, Min(Len(buffer), CMD_SIZE - 1))

StartsWith(bytes, word) ==
    /\ Len(bytes) >= Len(word)
    /\ \A i \in 1 .. Len(word) : bytes[i] = word[i]

\* the flag the command in buffer asks for
Commanded(buffer, old) ==
    IF StartsWith(Truncated(buffer), Enable) THEN 1
    ELSE IF StartsWith(Truncated(buffer), Disable) THEN 0
    ELSE old

\* C9 as stated: every control write sets the flag by the prefix of its
\* input and surfaces no error
C9_PrefixCommands ==
    Written =>
        /\ last_write.after = Commanded(last_write.buffer, last_write.before)
        /\ last_write.ret >= 0

\* C9 amended: a control write whose buffer copy_from_user can read enables
\* the flag exactly when its truncated input starts with "enable", disables
\* it exactly when it starts with "disable", otherwise leaves it and
\* returns no error; one whose buffer cannot be read returns -EFAULT and
\* leaves the flag as it was.
C9_PrefixCommandsWhenCopied ==
    Written =>
        /\ monitoring = last_write.after
        /\ IF last_write.fault
           THEN last_write.after = last_write.before /\ last_write.ret < 0
           ELSE /\ last_write.after =
                      Commanded(last_write.buffer, last_write.before)
                /\ last_write.ret >= 0

\* C9 witness: an unrecognized command left a disabled flag disabled
C9_Witness ==
    /\ ctl_calls = 2
    /\ ~last_write.fault
    /\ last_write.buffer = <<" ">> \o Enable
    /\ last_write.before = 0
    /\ monitoring = 0

\* a control write happens in this step
WriteStep == ctl_calls' = ctl_calls + 1

\* C10: a control write of "enable" to an enabled flag, of "disable" to a
\* disabled flag, or of the command the previous write wrote, leaves the
\* flag, the ring, head and the process table unchanged.
C10_Idempotent ==
    [][(/\ WriteStep
        /\ \/ StartsWith(last_write'.buffer, Enable) /\ monitoring = 1
           \/ StartsWith(last_write'.buffer, Disable) /\ monitoring = 0
           \/ /\ Written
              /\ last_write'.buffer = last_write.buffer
              /\ last_write'.fault = last_write.fault)
       => UNCHANGED <<monitoring, cpu_usage, mem_usage, head, top_processes>>]_vars

\* C10 witness: "disable" was written to a flag already disabled
C10_Witness ==
    /\ ctl_calls = 2
    /\ last_write.buffer = Disable
    /\ ~last_write.fault
    /\ last_write.before = 0
    /\ monitoring = 0

(***************************************************************************)
(* Properties of the process table's capacity (under SpecCrowded).         *)
(***************************************************************************)
\* C11: a tick whose enumeration yields more than MAX_PROCESSES processes
\* leaves exactly MAX_PROCESSES valid entries, the first MAX_PROCESSES in
\* enumeration order; at all times the walk stays inside the table and no
\* top_processes section has more than MAX_PROCESSES lines.
C11_CapacityBound ==
    /\ mi <= MAX_PROCESSES
    /\ DOMAIN top_processes = ProcSlots
    /\ \A r \in Readers : Len(out[r].top) <= MAX_PROCESSES
    /\ (TickDone /\ Len(en) > MAX_PROCESSES) =>
          /\ \A j \in ProcSlots :
                top_processes[j] = StatsOf(en[j + 1]) /\ top_processes[j].pid # 0
          /\ Cardinality({j \in ProcSlots : top_processes[j].pid # 0}) = MAX_PROCESSES

\* C11 witness: a read rendered a full table after a tick that enumerated
\* more than MAX_PROCESSES processes
C11_Witness ==
    /\ TickDone
    /\ Len(en) > MAX_PROCESSES
    /\ \E r \in Readers :
          /\ rpc[r] = "done"
          /\ Len(out[r].top) = MAX_PROCESSES
          /\ out[r].top[MAX_PROCESSES] = StatsOf(en[MAX_PROCESSES])

(***************************************************************************)
(* Properties of a whole read (under Spec).                                *)
(***************************************************************************)
\* the sections of system_stats_show, in the order of its calls
Sections ==
    <<"cpu_stats", "memory_stats", "process_count", "io_stats", "network_stats",
      "history", "top_processes">>

\* C12: every read emits the seven sections once each in the order cpu_stats,
\* memory_stats, process_count, io_stats, network_stats, history,
\* top_processes, and its history section has exactly HISTORY_SIZE lines
\* indexed 0 .. HISTORY_SIZE - 1, whatever the ring holds and whatever the
\* sampling loop is doing.
C12_SevenSections ==
    \A r \in Readers :
        /\ Len(out[r].sections) <= Len(Sections)
        /\ out[r].sections = SubSeq(Sections, 1, Len(out[r].sections))
        /\ Len(out[r].hist) <= HISTORY_SIZE
        /\ \A n \in 1 .. Len(out[r].hist) : out[r].hist[n][1] = n - 1
        /\ rpc[r] \in {"top_loop", "done"} => Len(out[r].hist) = HISTORY_SIZE
        /\ rpc[r] = "done" => out[r].sections = Sections

\* C12 witness: a read completed right after load, before any append, with
\* the sampling loop in the middle of a tick
C12_Witness ==
    \E r \in Readers :
        /\ rpc[r] = "done"
        /\ K = 0
        /\ mpc \in {"collect", "lock", "w_cpu", "w_mem", "w_head"}
        /\ out[r].sections = Sections
        /\ Len(out[r].hist) = HISTORY_SIZE

(***************************************************************************)
(* Who changes the monitoring flag (under Spec).                           *)
(***************************************************************************)
\* a step of some read
ReadMoves == \E r \in Readers : rpc'[r] # rpc[r] \/ out'[r] # out[r] \/ ri'[r] # ri[r]

\* C13: the flag is 1 until the first control write and only a control write
\* changes it: no tick, read, timer callback or stop request does; a step of
\* a read changes no ring slot, not the head, not the table, not the flag.
C13_FlagOwnership ==
    /\ [](ctl_calls = 0 => monitoring = 1)
    /\ [][monitoring' # monitoring => WriteStep]_vars
    /\ [][ReadMoves =>
            UNCHANGED <<cpu_usage, mem_usage, head, top_processes, monitoring>>]_vars

\* C13 witness: the flag was cleared and set again by control writes, ticks
\* appended, a read completed and the stop was requested, and the flag is as
\* the last write left it
C13_Witness ==
    /\ phase = "exiting"
    /\ should_stop
    /\ ctl_calls = 2
    /\ last_write.before = 0
    /\ last_write.after = 1
    /\ monitoring = 1
    /\ K > 0
    /\ \E r \in Readers : rpc[r] = "done"

(***************************************************************************)
(* Reads of the process table while it is refreshed (under SpecTorn).      *)
(***************************************************************************)
\* the table the tick in progress leaves: the slots it enumerates
\* overwritten, the others as the tick found them
TableAfterTick ==
    [j \in ProcSlots |->
        IF j < Min(Len(en), MAX_PROCESSES) THEN StatsOf(en[j + 1]) ELSE tick.top[j]]

\* C14: the table is refreshed and rendered with no synchronisation, so a
\* read running during a refresh can mix slots of the previous and of the
\* current tick: the refresh never holds the ring-buffer lock, rendering
\* never holds it, a refresh step overwrites one slot in place while reads go
\* on, and a rendering step copies the slot as it stands at that moment.
C14_UnsynchronisedTable ==
    /\ [](mpc = "collect" => lock # "monitor")
    /\ [](\A r \in Readers : rpc[r] = "top_loop" => lock # r)
    /\ [][top_processes' # top_processes =>
            /\ mpc = "collect"
            /\ \A j \in ProcSlots \ {mi} : top_processes'[j] = top_processes[j]
            /\ \A r \in Readers : rpc'[r] = rpc[r] /\ out'[r] = out[r]]_vars
    /\ [][\A r \in Readers :
            (rpc[r] = "top_loop" /\ out'[r] # out[r]) =>
                out'[r].top = Append(out[r].top, top_processes[ri[r]])]_vars

\* C14 witness: a completed read whose top_processes section is neither the
\* table the previous tick left nor the table the current tick leaves: each
\* of its lines is one or the other's slot, some line is not the previous
\* tick's and some line is not the current tick's
C14_Witness ==
    \E r \in Readers :
        /\ rpc[r] = "done"
        /\ tick.flag = 1
        /\ mpc \in {"collect", "lock", "w_cpu", "w_mem", "w_head", "unlock", "sleep"}
        /\ out[r].top # RenderedLines(tick.top)
        /\ out[r].top # RenderedLines(TableAfterTick)
        /\ \A n \in 1 .. Len(out[r].top) :
              out[r].top[n] \in {tick.top[n - 1], TableAfterTick[n - 1]}
        /\ \E n \in 1 .. Len(out[r].top) : out[r].top[n] # tick.top[n - 1]
        /\ \E n \in 1 .. Len(out[r].top) : out[r].top[n] # TableAfterTick[n - 1]

(***************************************************************************)
(* The discipline of stats_history.lock (under Spec).                      *)
(***************************************************************************)
\* the steps of monitor_function between spin_lock and spin_unlock
InAppend == mpc \in {"w_cpu", "w_mem", "w_head", "unlock"}

\* the ring itself
ring == <<cpu_usage, mem_usage, head>>

\* C15: the lock has at most one holder; the sampling loop holds it exactly
\* from the slot write to the head advance (not while it refreshes the
\* table, sleeps or tests the flag), a reader exactly while it renders the
\* history; the ring changes only under the sampling loop's hold and history
\* lines are read only under the reader's.
C15_LockDiscipline ==
    /\ [](lock = "monitor" <=> InAppend)
    /\ [](\A r \in Readers : lock = r <=> rpc[r] = "hist_loop")
    /\ [](\A r \in Readers : ~(InAppend /\ rpc[r] = "hist_loop"))
    /\ [][ring' # ring => lock = "monitor" /\ lock' = "monitor"]_vars
    /\ [][\A r \in Readers :
            (rpc[r] = "hist_loop" /\ out'[r].hist # out[r].hist) =>
                lock = r /\ lock' = r]_vars

\* C15 witness: the sampling loop has refreshed the table and waits for the
\* lock while a reader, half way through the history, holds it
C15_Witness ==
    \E r \in Readers :
        /\ mpc = "lock"
        /\ lock = r
        /\ rpc[r] = "hist_loop"
        /\ Len(out[r].hist) = HISTORY_SIZE \div 2
        /\ K > 0

(***************************************************************************)
(* Progress of reads and control writes (under FairReadSpec).              *)
(***************************************************************************)
\* how many times a read has passed spin_lock: once per "history" header
Acquired(r) ==
    Cardinality({n \in 1 .. Len(out[r].sections) : out[r].sections[n] = "history"})

C17_HeadInRange ==
    /\ [](head \in Slots)
    /\ [](head = K % HISTORY_SIZE)
    /\ [](K = 0 => head = 0)
    /\ [](DOMAIN cpu_usage = Slots /\ DOMAIN mem_usage = Slots)
    /\ [](\A i \in 0 .. HISTORY_SIZE - 1 : HistIdx(head, i) \in Slots)
    /\ [][head' # head =>
            /\ mpc = "w_head"
            /\ head' = (head + 1) % HISTORY_SIZE
            /\ K' = K + 1]_vars
    /\ [][K' # K => head' # head]_vars

\* C17 witness: the head has wrapped: after HISTORY_SIZE + 1 appends it is 1
C17_Witness ==
    /\ K = HISTORY_SIZE + 1
    /\ head = 1
    /\ mpc = "unlock"

(***************************************************************************)
(* The order of a tick's steps (under SpecCtl).                            *)
(***************************************************************************)
\* the refresh of the current tick is complete: every enumerated task that
\* fits is in its slot
Refreshed ==
    /\ mi = Min(Len(en), MAX_PROCESSES)
    /\ \A j \in 0 .. (mi - 1) : top_processes[j] = StatsOf(en[j + 1])

\* C18: a tick that reads the flag as enabled refreshes the table once and
\* then appends one entry: the refresh starts at the flag test only, is
\* complete before the lock is asked for, the append follows it in the same
\* tick, and the count of appends is the count at the start of the tick
\* until the head advance and one more after it.
C18_RefreshThenAppend ==
    /\ [](mpc = "collect" => tick.flag = 1 /\ K = tick.n)
    /\ [](mpc \in {"lock", "w_cpu", "w_mem", "w_head"} =>
            tick.flag = 1 /\ Refreshed /\ K = tick.n)
    /\ [](mpc = "unlock" => tick.flag = 1 /\ Refreshed /\ K = tick.n + 1)
    /\ [](TickDone => Refreshed /\ K = tick.n + 1)
    /\ [][K' # K => K' = K + 1 /\ mpc = "w_head" /\ Refreshed]_vars
    /\ [][(mpc' = "collect" /\ mpc # "collect") => mpc = "check" /\ mi' = 0]_vars
    /\ [][(mpc = "collect" /\ mpc' # "collect") => mpc' = "lock" /\ Refreshed']_vars
    /\ [][top_processes' # top_processes => mpc = "collect"]_vars

\* C18 witness: the second enabled tick, over several processes, has
\* refreshed the table and then appended its entry
C18_Witness ==
    /\ TickDone
    /\ K = 2
    /\ tick.n = 1
    /\ Len(en) = MaxTasks
    /\ Refreshed

(***************************************************************************)
(* The valid slots of the process table (under SpecTable).                 *)
(***************************************************************************)
\* the slots holding a process
ValidSlots == {j \in ProcSlots : top_processes[j].pid # 0}

\* C19: no enumerated task has pid 0, and so the slots with pid # 0 are a
\* contiguous prefix of the table in every state: the scan of
\* show_top_processes, which stops at the first pid 0, emits one line for
\* each slot with pid # 0, in storage order, and skips none.
C19_ValidPrefix ==
    /\ \A n \in 1 .. Len(tasks) : tasks[n].pid # 0
    /\ \A j \in ValidSlots : \A i \in 0 .. j : i \in ValidSlots
    /\ Len(RenderedLines(top_processes)) = Cardinality(ValidSlots)
    /\ \A n \in 1 .. Len(RenderedLines(top_processes)) :
          RenderedLines(top_processes)[n] = top_processes[n - 1]

\* C19 witness: after a tick over fewer processes than an earlier one, the
\* table still holds a prefix of several valid slots, with and without an
\* address space
C19_Witness ==
    /\ TickDone
    /\ K >= 2
    /\ Len(en) < Cardinality(ValidSlots)
    /\ Cardinality(ValidSlots) = MaxTasks
    /\ top_processes[1].vm_size = 0

(***************************************************************************)
(* A "disable" against a tick in progress (under SpecCtl).                 *)
(***************************************************************************)
\* the steps of a tick after the flag test
InTick == mpc \in {"collect", "lock", "w_cpu", "w_mem", "w_head", "unlock"}

\* C20: the flag is read once, at the start of a tick.  With the flag at 0
\* (a "disable" has returned and no "enable" since), a tick that read 1
\* before goes on: it is the only one still refreshing and appending, once
\* each; a tick that starts afterwards reads 0 and does neither, and nothing
\* is refreshed or appended outside a tick.
C20_DisableInFlight ==
    /\ [](InTick => tick.flag = 1)
    /\ []((monitoring = 0 /\ tick.flag = 1) => K <= tick.n + 1)
    /\ []((monitoring = 0 /\ tick.flag = 0) => K = tick.n /\ ~InTick)
    /\ [][(monitoring = 0 /\ mpc = "check") => mpc' = "sleep" \/ mpc' = "check"]_vars
    /\ [][(monitoring = 0 /\ monitoring' = 0 /\ ~InTick) =>
            K' = K /\ top_processes' = top_processes]_vars
    /\ [][(monitoring = 0 /\ InTick /\ mpc' # mpc) =>
            IF mpc = "unlock" THEN mpc' = "sleep" ELSE InTick']_vars

\* C20 witness: "disable" has returned, clearing the flag, while a tick that
\* had read the flag as 1 is past its refresh and about to advance the head
C20_Witness ==
    /\ monitoring = 0
    /\ last_write.buffer = Disable
    /\ last_write.before = 1
    /\ last_write.after = 0
    /\ tick.flag = 1
    /\ mpc = "w_head"
    /\ K = tick.n

=============================================================================
